---- MODULE Spec2Model ----
(***************************************************************************)
(* Model of the NumPy-compatible Pareto and Rayleigh sampling operators    *)
(* (src/operator/numpy/random/np_pareto_op.h, np_rayleigh_op.h): the       *)
(* forward entry points NumpyParetoForward / NumpyRayleighForward with     *)
(* their per-element kernels, and the reparameterisation backward entry    *)
(* points ParetoReparamBackward / RayleighReparamBackward.                 *)
(*                                                                         *)
(* Kernels are launched over N work items; every work item is a separate   *)
(* process of the model and the work items interleave freely, statement    *)
(* by statement.  The work items of a legality check that find a violation *)
(* all store the same value -1.0 into flag[0] without reading it; the      *)
(* store of one float is taken as indivisible, so concurrent stores leave  *)
(* -1.0 whatever their order.                                              *)
(*                                                                         *)
(* Arithmetic is exact (no rounding): a number is c*exp(e) + k with        *)
(* rational c, e, k, which is closed under the operations the kernels      *)
(* apply to the values chosen here; NaN is a value of its own.             *)
(***************************************************************************)
EXTENDS Integers, Sequences, FiniteSets, TLC

(***************************************************************************)
(* Bounds                                                                  *)
(***************************************************************************)
\* largest number of elements of the output tensor in a forward call
MaxSize == 2
\* largest extent of a dimension in the broadcast-indexing specification
MaxDim == 4

\* ranks of the output shape
Ranks == {1, 2}
\* finite values a parameter (scalar or tensor element) takes, besides NaN
ParamInts == {-1, 0, 1, 2}
\* the uniform draws: u = exp(-m) for m in DrawExps, all inside (0,1)
DrawExps == {8, 32}
\* input arities tried for the backward entry points
Arities == {4, 5, 6}

(***************************************************************************)
(* Exact rationals <<n, d>>, d > 0, in lowest terms                        *)
(***************************************************************************)
Abs(n) == IF n < 0 THEN -n ELSE n

RECURSIVE GCD(_, _)
GCD(a, b) == IF b = 0 THEN a ELSE GCD(b, a % b)

RatNorm(n, d) ==
  LET s == IF d < 0 THEN -1 ELSE 1
      g == GCD(Abs(n), Abs(d))
  IN  <<(s * n) \div g, (s * d) \div g>>

R0 == <<0, 1>>
R1 == <<1, 1>>
RatInt(n) == <<n, 1>>
RatAdd(p, q) == RatNorm(p[1] * q[2] + q[1] * p[2], p[2] * q[2])
RatNeg(p) == <<-p[1], p[2]>>
RatMul(p, q) == RatNorm(p[1] * q[1], p[2] * q[2])
RatInv(p) == RatNorm(p[2], p[1])

\* the non-negative rational whose square is p, or <<-1, 1>> if there is none
RatSqrt(p) ==
  LET rn == {r \in 0..p[1] : r * r = p[1]}
      rd == {r \in 1..p[2] : r * r = p[2]}
  IN  IF rn # {} /\ rd # {}
        THEN <<CHOOSE r \in rn : TRUE, CHOOSE r \in rd : TRUE>>
        ELSE <<-1, 1>>

(***************************************************************************)
(* Numbers: [t, c, e, k].  t = "num": the real c*exp(e) + k, normalised so *)
(* that c = 0 iff e = 0.  t = "nan": NaN.  t = "inf": a division by zero.  *)
(* t = "junk": the content of a buffer before the call wrote it.           *)
(* t = "unrep": a real outside the representation (never reached).         *)
(***************************************************************************)
Special(tag) == [t |-> tag, c |-> R0, e |-> R0, k |-> R0]
NaN == Special("nan")
Inf == Special("inf")
Junk == Special("junk")
Unrep == Special("unrep")

Mk(c, e, k) ==
  IF c = R0 THEN [t |-> "num", c |-> R0, e |-> R0, k |-> k]
  ELSE IF e = R0 THEN [t |-> "num", c |-> R0, e |-> R0, k |-> RatAdd(c, k)]
  ELSE [t |-> "num", c |-> c, e |-> e, k |-> k]

Const(q) == Mk(R0, R0, q)
Int2Num(n) == Const(RatInt(n))
IsConst(x) == x.t = "num" /\ x.c = R0
IsPureExp(x) == x.t = "num" /\ x.c # R0 /\ x.k = R0

\* the result when an operand is not a number: NaN wins, then the others
Bad(x, y) ==
  IF x.t = "nan" \/ y.t = "nan" THEN NaN
  ELSE IF x.t # "num" THEN x ELSE y

Neg(x) == IF x.t # "num" THEN x ELSE Mk(RatNeg(x.c), x.e, RatNeg(x.k))

Add(x, y) ==
  IF x.t # "num" \/ y.t # "num" THEN Bad(x, y)
  ELSE IF IsConst(y) THEN Mk(x.c, x.e, RatAdd(x.k, y.k))
  ELSE IF IsConst(x) THEN Mk(y.c, y.e, RatAdd(x.k, y.k))
  ELSE IF x.e = y.e THEN Mk(RatAdd(x.c, y.c), x.e, RatAdd(x.k, y.k))
  ELSE Unrep

Sub(x, y) == Add(x, Neg(y))

Mul(x, y) ==
  IF x.t # "num" \/ y.t # "num" THEN Bad(x, y)
  ELSE IF IsConst(y) THEN Mk(RatMul(x.c, y.k), x.e, RatMul(x.k, y.k))
  ELSE IF IsConst(x) THEN Mk(RatMul(y.c, x.k), y.e, RatMul(y.k, x.k))
  ELSE IF IsPureExp(x) /\ IsPureExp(y)
    THEN Mk(RatMul(x.c, y.c), RatAdd(x.e, y.e), R0)
  ELSE Unrep

Div(x, y) ==
  IF x.t # "num" \/ y.t # "num" THEN Bad(x, y)
  ELSE IF IsConst(y)
    THEN IF y.k = R0 THEN (IF x = Const(R0) THEN NaN ELSE Inf)
         ELSE Mul(x, Const(RatInv(y.k)))
  ELSE IF IsPureExp(y)
    THEN Mul(x, Mk(RatInv(y.c), RatNeg(y.e), R0))
  ELSE Unrep

\* natural logarithm
Log(x) ==
  IF x.t # "num" THEN x
  ELSE IF x = Const(R1) THEN Const(R0)
  ELSE IF IsPureExp(x) /\ x.c = R1 THEN Const(x.e)
  ELSE IF IsConst(x) /\ x.k[1] < 0 THEN NaN
  ELSE Unrep

\* natural exponential
Exp(x) ==
  IF x.t # "num" THEN x
  ELSE IF IsConst(x) THEN Mk(R1, x.k, R0)
  ELSE Unrep

Sqrt(x) ==
  IF x.t # "num" THEN x
  ELSE IF IsConst(x)
    THEN IF x.k[1] < 0 THEN NaN
         ELSE IF RatSqrt(x.k) = <<-1, 1>> THEN Unrep
         ELSE Const(RatSqrt(x.k))
  ELSE Unrep

\* IEEE comparisons with the literal 0.0: every comparison with NaN is false
GtZero(x) == IsConst(x) /\ x.k[1] > 0
GeZero(x) == IsConst(x) /\ x.k[1] >= 0
LeZero(x) == IsConst(x) /\ x.k[1] <= 0
LtZero(x) == IsConst(x) /\ x.k[1] < 0

(***************************************************************************)
(* Shapes and broadcast indexing                                           *)
(***************************************************************************)
RECURSIVE Prod(_)
Prod(sh) == IF sh = <<>> THEN 1 ELSE Head(sh) * Prod(Tail(sh))

\* TShape::Size() / TBlob::Size(): the number of elements
Size(sh) == Prod(sh)

\* FillShape(lshape, lshape, oshape, ...): the parameter shape aligned to the
\* rank of the output shape, NumPy style (extended with ones on the left)
FillShape(lshape, oshape) ==
  LET bl == Len(oshape) - Len(lshape)
  IN  [new_lshape |-> [d \in 1..Len(oshape) |->
                         IF d <= bl THEN 1 ELSE lshape[d - bl]],
       new_oshape |-> oshape,
       ndim |-> Len(oshape)]

\* calc_stride(shape): row-major strides, zero in the dimensions of extent 1
calc_stride(shape) ==
  [d \in 1..Len(shape) |->
     IF shape[d] > 1 THEN Prod(SubSeq(shape, d + 1, Len(shape))) ELSE 0]

\* unravel(idx, shape): the row-major coordinate of a linear index
unravel(idx, shape) ==
  [d \in 1..Len(shape) |->
     (idx \div Prod(SubSeq(shape, d + 1, Len(shape)))) % shape[d]]

RECURSIVE dot(_, _)
dot(coord, stride) ==
  IF coord = <<>> THEN 0
  ELSE Head(coord) * Head(stride) + dot(Tail(coord), Tail(stride))

\* a parameter shape broadcasts to an output shape
Broadcastable(lshape, oshape) ==
  /\ Len(lshape) <= Len(oshape)
  /\ \A d \in 1..Len(lshape) :
       LET o == oshape[d + Len(oshape) - Len(lshape)]
       IN  lshape[d] = o \/ lshape[d] = 1

RangeIdx(n) == 0..(n - 1)

(***************************************************************************)
(* Kernels.  A kernel is given statement by statement: K(stmt, i, ...) is  *)
(* the pair of buffers after work item i executed its statement stmt.      *)
(***************************************************************************)
\* the index of the parameter element work item i reads
ParamIndex(i, stride, oshape) == dot(unravel(i, oshape), stride)

scalar_pareto_kernel(stmt, i, a, noise, out) ==
  [noise |-> noise,
   out |-> [out EXCEPT ![i] = Sub(Exp(Div(Neg(Log(noise[i])), a)), Int2Num(1))]]

\* the threshold kept in a local instead of being stored back
scalar_rayleigh_kernel_keep_noise(stmt, i, scale, threshold, out) ==
  IF stmt = 0
    THEN [noise |-> threshold, out |-> out]
    ELSE [noise |-> threshold,
          out |-> [out EXCEPT
                     ![i] = Mul(scale, Sqrt(Mul(Int2Num(-2), Log(threshold[i]))))]]

scalar_rayleigh_kernel(stmt, i, scale, threshold, out) ==
  IF stmt = 0
    THEN [noise |-> [threshold EXCEPT
                       ![i] = Sqrt(Mul(Int2Num(-2), Log(threshold[i])))],
          out |-> out]
    ELSE [noise |-> threshold,
          out |-> [out EXCEPT ![i] = Mul(scale, threshold[i])]]

\* flag[0] after work item i of the legality check ran
check_legal_a_kernel_assign(i, a, flag) == IF LeZero(a[i]) THEN -1 ELSE 0

check_legal_a_kernel(i, a, flag) == IF LeZero(a[i]) THEN -1 ELSE flag

check_legal_scale_kernel(i, scalar, flag) == IF LtZero(scalar[i]) THEN -1 ELSE flag

\* the gradient factor without its leading minus sign
pareto_kernel_nosign(stmt, i, stride, oshape, aparams, noise, out) ==
  LET idx == ParamIndex(i, stride, oshape)
  IN  IF stmt = 0
        THEN [noise |-> [noise EXCEPT ![i] = Neg(Log(noise[i]))], out |-> out]
      ELSE IF stmt = 1
        THEN [noise |-> noise,
              out |-> [out EXCEPT
                         ![i] = Sub(Exp(Div(noise[i], aparams[idx])), Int2Num(1))]]
      ELSE [noise |-> [noise EXCEPT
                         ![i] = Mul(Mul(noise[i], Add(out[i], Int2Num(1))),
                                    Div(Int2Num(1),
                                        Mul(aparams[idx], aparams[idx])))],
            out |-> out]

\* the output written at the parameter index instead of the work item's own
pareto_kernel_shared_slot(stmt, i, stride, oshape, aparams, noise, out) ==
  LET idx == ParamIndex(i, stride, oshape)
  IN  IF stmt = 0
        THEN [noise |-> [noise EXCEPT ![i] = Neg(Log(noise[i]))], out |-> out]
      ELSE IF stmt = 1
        THEN [noise |-> noise,
              out |-> [out EXCEPT
                         ![idx] = Sub(Exp(Div(noise[i], aparams[idx])), Int2Num(1))]]
      ELSE [noise |-> [noise EXCEPT
                         ![i] = Mul(Mul(Neg(noise[i]), Add(out[idx], Int2Num(1))),
                                    Div(Int2Num(1),
                                        Mul(aparams[idx], aparams[idx])))],
            out |-> out]

pareto_kernel(stmt, i, stride, oshape, aparams, noise, out) ==
  LET idx == ParamIndex(i, stride, oshape)
  IN  IF stmt = 0
        THEN [noise |-> [noise EXCEPT ![i] = Neg(Log(noise[i]))], out |-> out]
      ELSE IF stmt = 1
        THEN [noise |-> noise,
              out |-> [out EXCEPT
                         ![i] = Sub(Exp(Div(noise[i], aparams[idx])), Int2Num(1))]]
      ELSE [noise |-> [noise EXCEPT
                         ![i] = Mul(Mul(Neg(noise[i]), Add(out[i], Int2Num(1))),
                                    Div(Int2Num(1),
                                        Mul(aparams[idx], aparams[idx])))],
            out |-> out]

rayleigh_kernel(stmt, i, stride, oshape, scales, threshold, out) ==
  LET idx == ParamIndex(i, stride, oshape)
  IN  IF stmt = 0
        THEN [noise |-> [threshold EXCEPT
                           ![i] = Sqrt(Mul(Int2Num(-2), Log(threshold[i])))],
              out |-> out]
        ELSE [noise |-> threshold,
              out |-> [out EXCEPT ![i] = Mul(scales[idx], threshold[i])]]

(***************************************************************************)
(* Inputs                                                                  *)
(***************************************************************************)
ParamVals == {NaN} \cup {Int2Num(n) : n \in ParamInts}
Draws == {Mk(R1, RatInt(-m), R0) : m \in DrawExps}
Dists == {"pareto", "rayleigh"}

ShapesOfRank(r, maxExt) == [1..r -> 0..maxExt]
OShapes == {sh \in UNION {ShapesOfRank(r, MaxSize) : r \in Ranks} : Size(sh) <= MaxSize}
IShapes(osh) ==
  {sh \in UNION {ShapesOfRank(r, MaxSize) : r \in Ranks \cup {0}} : Broadcastable(sh, osh)}

NoParam == [has |-> FALSE, v |-> Junk]
NoBackward == [called |-> FALSE, dist |-> "none", gshape |-> <<>>, pshape |-> <<>>,
               nout |-> 0, nin |-> 0, reducer |-> FALSE, igrad |-> <<>>]

(***************************************************************************)
(* State                                                                   *)
(***************************************************************************)
VARIABLES
  pc,              \* position of the forward call
  dist,            \* which operator is running
  param,           \* param.a / param.scale: [has, v]
  ishape,          \* inputs[0].shape_
  in0,             \* inputs[0]: the parameter tensor, flat
  oshape,          \* outputs[0].shape_
  flag,            \* indicator_device[0], the one-float workspace
  indicator_host,  \* indicator_host
  noise,           \* uniform_tensor = outputs[1], flat
  out,             \* outputs[0], flat
  chk,             \* work items of the legality check still to run
  wpc,             \* next statement of every work item of the transform
  u0,              \* history: the draws SampleUniform produced
  steps,           \* history: the steps of this call, in order
  prev,            \* history: verdict of the preceding call
  rerun,           \* history: this call repeats the preceding call's parameter
  bwd,             \* the backward call: its inputs and what it did
  kidx             \* broadcast indexing: [i, idx] of the last work item

vars == <<pc, dist, param, ishape, in0, oshape, flag, indicator_host, noise, out,
          chk, wpc, u0, steps, prev, rerun, bwd, kidx>>

callVars == <<dist, param, ishape, in0, oshape>>

Init ==
  /\ pc = "idle"
  /\ dist = "none"
  /\ param = NoParam
  /\ ishape = <<>>
  /\ in0 = <<>>
  /\ oshape = <<>>
  /\ flag \in {-1, 0, 1}
  /\ indicator_host = 1
  /\ noise = <<>>
  /\ out = <<>>
  /\ chk = {}
  /\ wpc = <<>>
  /\ u0 = <<>>
  /\ steps = <<>>
  /\ prev = "none"
  /\ rerun = FALSE
  /\ bwd = NoBackward
  /\ kidx = [i |-> -1, idx |-> -1]

(***************************************************************************)
(* Forward: NumpyParetoForward / NumpyRayleighForward                      *)
(***************************************************************************)
Buffer(n, v) == [i \in RangeIdx(n) |-> v]

\* entry with the buffers the caller allocated; indicator_host = 1.0
Enter(from, d, p, ish, a, osh) ==
  /\ pc = from
  /\ pc' = "start"
  /\ dist' = d
  /\ param' = p
  /\ ishape' = ish
  /\ in0' = a
  /\ oshape' = osh
  /\ indicator_host' = 1
  /\ noise' = Buffer(Size(osh), Junk)
  /\ out' = Buffer(Size(osh), Junk)
  /\ u0' = Buffer(Size(osh), Junk)
  /\ steps' = <<>>
  /\ UNCHANGED <<flag, chk, wpc, bwd, kidx>>

\* a call with a scalar parameter (param.a / param.scale has a value)
ForwardScalar ==
  /\ pc = "idle"
  /\ \E d \in Dists, v \in ParamVals, osh \in OShapes :
    /\ Enter("idle", d, [has |-> TRUE, v |-> v], <<>>, <<>>, osh)
    /\ rerun' = FALSE
    /\ UNCHANGED prev

\* a call with a parameter tensor inputs[0]
ForwardTensor ==
  /\ pc = "idle"
  /\ \E d \in Dists, osh \in OShapes :
    \E ish \in IShapes(osh) :
      \E a \in [RangeIdx(Size(ish)) -> ParamVals] :
        /\ Enter("idle", d, NoParam, ish, a, osh)
        /\ rerun' = FALSE
        /\ UNCHANGED prev

\* the preceding call again, on the same parameter and the same workspace
ForwardAgain ==
  /\ Enter("over", dist, param, ishape, in0, oshape)
  /\ rerun' = TRUE
  /\ UNCHANGED prev

\* Kernel<set_zero, xpu>::Launch(s, 1, indicator_device_ptr)
NoSetZero(f) == f

set_zero(f) == 0

SetZero ==
  /\ pc = "start"
  /\ pc' = "zeroed"
  /\ flag' = set_zero(flag)
  /\ steps' = Append(steps, "set_zero")
  /\ UNCHANGED <<callVars, indicator_host, noise, out, chk, wpc, u0, prev, rerun, bwd, kidx>>

\* prnd->SampleUniform(&uniform_tensor, 0.0, 1.0)
SampleUniform ==
  /\ pc = "zeroed"
  /\ \E u \in [RangeIdx(Size(oshape)) -> Draws] :
       /\ noise' = u
       /\ u0' = u
  /\ pc' = "sampled"
  /\ steps' = Append(steps, "sample")
  /\ UNCHANGED <<callVars, flag, indicator_host, out, chk, wpc, prev, rerun, bwd, kidx>>

\* the number of statements of the transform kernel the call launches
NumStmts(d, scalar) ==
  IF d = "pareto" THEN (IF scalar THEN 1 ELSE 3) ELSE 2

\* Shape<NDim> stride = calc_stride(new_lshape.get<NDim>())
StrideOfOutput(ish, osh) == calc_stride(FillShape(ish, osh).new_oshape)

Stride(ish, osh) == calc_stride(FillShape(ish, osh).new_lshape)

\* statement stmt of work item i of the transform kernel the call launched
Kernel(stmt, i, d, p, ish, a, osh, nz, o) ==
  IF p.has
    THEN IF d = "pareto" THEN scalar_pareto_kernel(stmt, i, p.v, nz, o)
         ELSE scalar_rayleigh_kernel(stmt, i, p.v, nz, o)
    ELSE LET new_oshape == FillShape(ish, osh).new_oshape
             stride == Stride(ish, osh)
         IN  IF d = "pareto"
               THEN pareto_kernel(stmt, i, stride, new_oshape, a, nz, o)
               ELSE rayleigh_kernel(stmt, i, stride, new_oshape, a, nz, o)

\* Kernel<...>::Launch as one loop: every work item in turn, from work item
\* i and its statement stmt on, to the end
RECURSIVE SerialRun(_, _, _, _, _, _, _, _, _)
SerialRun(stmt, i, d, p, ish, a, osh, nz, o) ==
  IF i >= Size(osh) THEN [noise |-> nz, out |-> o]
  ELSE IF stmt >= NumStmts(d, p.has) THEN SerialRun(0, i + 1, d, p, ish, a, osh, nz, o)
  ELSE LET r == Kernel(stmt, i, d, p, ish, a, osh, nz, o)
       IN  SerialRun(stmt + 1, i, d, p, ish, a, osh, r.noise, r.out)

\* CHECK_GT(param.a.value(), 0.0) / CHECK_GE(param.scale.value(), 0.0)
ParetoScalarLegal(a) == GtZero(a)

RayleighScalarLegal(scale) == GeZero(scale)

\* the check placed after the kernel launch
ScalarCheckAfterKernel ==
  /\ pc = "sampled"
  /\ param.has
  /\ LET r == SerialRun(0, 0, dist, param, ishape, in0, oshape, noise, out)
     IN  /\ noise' = r.noise
         /\ out' = r.out
  /\ pc' = IF (dist = "pareto" /\ ParetoScalarLegal(param.v))
              \/ (dist = "rayleigh" /\ RayleighScalarLegal(param.v))
             THEN "done" ELSE "failed"
  /\ wpc' = Buffer(Size(oshape), NumStmts(dist, TRUE))
  /\ steps' = Append(steps, "scalar_check")
  /\ UNCHANGED <<callVars, flag, indicator_host, chk, u0, prev, rerun, bwd, kidx>>

ScalarCheck ==
  /\ pc = "sampled"
  /\ param.has
  /\ pc' = IF (dist = "pareto" /\ ParetoScalarLegal(param.v))
              \/ (dist = "rayleigh" /\ RayleighScalarLegal(param.v))
             THEN "checked" ELSE "failed"
  /\ steps' = Append(steps, "scalar_check")
  /\ UNCHANGED <<callVars, flag, indicator_host, noise, out, chk, wpc, u0, prev, rerun,
                 bwd, kidx>>

\* Kernel<check_legal_*_kernel, xpu>::Launch(s, inputs[0].Size(), ...)
LaunchCheck ==
  /\ pc = "sampled"
  /\ ~param.has
  /\ pc' = "check"
  /\ chk' = RangeIdx(Size(ishape))
  /\ steps' = Append(steps, "check")
  /\ UNCHANGED <<callVars, flag, indicator_host, noise, out, wpc, u0, prev, rerun, bwd, kidx>>

\* work item i of the legality check
CheckMap(i) ==
  /\ pc = "check"
  /\ i \in chk
  /\ chk' = chk \ {i}
  /\ flag' = IF dist = "pareto" THEN check_legal_a_kernel(i, in0, flag)
             ELSE check_legal_scale_kernel(i, in0, flag)
  /\ UNCHANGED <<pc, callVars, indicator_host, noise, out, wpc, u0, steps, prev, rerun,
                 bwd, kidx>>

\* the kernels queued on the stream have completed: _copy synchronises with
\* the stream before the host reads
StreamIdle == chk = {}

\* _copy<xpu>(s, &indicator_host, indicator_device_ptr)
Copy ==
  /\ pc = "check"
  /\ StreamIdle
  /\ pc' = "copied"
  /\ indicator_host' = flag
  /\ steps' = Append(steps, "copy")
  /\ UNCHANGED <<callVars, flag, noise, out, chk, wpc, u0, prev, rerun, bwd, kidx>>

\* CHECK_GE(indicator_host, 0.0)
HostLegalAlways(h) == TRUE

HostLegal(h) == h >= 0

CheckFlag ==
  /\ pc = "copied"
  /\ pc' = IF HostLegal(indicator_host) THEN "checked" ELSE "failed"
  /\ steps' = Append(steps, "host_check")
  /\ UNCHANGED <<callVars, flag, indicator_host, noise, out, chk, wpc, u0, prev, rerun,
                 bwd, kidx>>

\* Kernel<..., xpu>::Launch(s, outputs[0].Size(), ...) of the transform kernel
LaunchTransform ==
  /\ pc = "checked"
  /\ pc' = "xform"
  /\ wpc' = Buffer(Size(oshape), 0)
  /\ steps' = Append(steps, "transform")
  /\ prev' = "none"
  /\ rerun' = FALSE
  /\ UNCHANGED <<callVars, flag, indicator_host, noise, out, chk, u0, bwd, kidx>>

Map(i) ==
  /\ pc = "xform"
  /\ i \in DOMAIN wpc
  /\ wpc[i] < NumStmts(dist, param.has)
  /\ LET r == Kernel(wpc[i], i, dist, param, ishape, in0, oshape, noise, out)
     IN  /\ noise' = r.noise
         /\ out' = r.out
  /\ wpc' = [wpc EXCEPT ![i] = @ + 1]
  /\ UNCHANGED <<pc, callVars, flag, indicator_host, chk, u0, steps, prev, rerun, bwd, kidx>>

\* every work item has finished: the call has succeeded
Finish ==
  /\ pc = "xform"
  /\ \A i \in DOMAIN wpc : wpc[i] = NumStmts(dist, param.has)
  /\ pc' = "done"
  /\ UNCHANGED <<callVars, flag, indicator_host, noise, out, chk, wpc, u0, steps, prev,
                 rerun, bwd, kidx>>

\* the call is over (returned, or threw the domain error); the buffers go
\* back to the caller, the workspace flag stays as the call left it
Over ==
  /\ pc \in {"done", "failed"}
  /\ pc' = "over"
  /\ prev' = IF pc = "failed" THEN "fail" ELSE "ok"
  /\ rerun' = FALSE
  /\ noise' = <<>>
  /\ out' = <<>>
  /\ u0' = <<>>
  /\ wpc' = <<>>
  /\ steps' = <<>>
  /\ indicator_host' = 1
  /\ UNCHANGED <<callVars, flag, chk, bwd, kidx>>

\* the caller turns to other parameters
Forget ==
  /\ pc = "over"
  /\ pc' = "idle"
  /\ dist' = "none"
  /\ param' = NoParam
  /\ ishape' = <<>>
  /\ in0' = <<>>
  /\ oshape' = <<>>
  /\ UNCHANGED <<flag, indicator_host, noise, out, chk, wpc, u0, steps, prev, rerun,
                 bwd, kidx>>

Next ==
  \/ ForwardScalar
  \/ ForwardTensor
  \/ ForwardAgain
  \/ SetZero
  \/ SampleUniform
  \/ ScalarCheck
  \/ LaunchCheck
  \/ \E i \in chk : CheckMap(i)
  \/ Copy
  \/ CheckFlag
  \/ LaunchTransform
  \/ \E i \in DOMAIN wpc : Map(i)
  \/ Finish
  \/ Over
  \/ Forget

Spec == Init /\ [][Next]_vars

\* no number leaves the representation
Representable ==
  /\ \A i \in DOMAIN noise : noise[i].t # "unrep"
  /\ \A i \in DOMAIN out : out[i].t # "unrep"

(***************************************************************************)
(* Broadcast indexing of the tensor-path kernels, on its own: the index    *)
(* computation of pareto_kernel / rayleigh_kernel for every work item of   *)
(* a launch, over shapes up to MaxDim per dimension.                       *)
(***************************************************************************)
BShapes == UNION {ShapesOfRank(r, MaxDim) : r \in Ranks}

InitBroadcast ==
  /\ Init
  /\ flag = 0

\* the launch: shapes of inputs[0] and outputs[0]
IndexLaunch ==
  /\ pc = "idle"
  /\ pc' = "index"
  /\ \E osh \in BShapes :
       \E ish \in {sh \in BShapes \cup {<<>>} : Broadcastable(sh, osh)} :
         /\ oshape' = osh
         /\ ishape' = ish
  /\ UNCHANGED <<dist, param, in0, flag, indicator_host, noise, out, chk, wpc, u0, steps,
                 prev, rerun, bwd, kidx>>

\* work item i computes the index of the parameter element it reads
IndexMap(i) ==
  /\ pc = "index"
  /\ kidx' = [i |-> i,
              idx |-> ParamIndex(i, Stride(ishape, oshape),
                                 FillShape(ishape, oshape).new_oshape)]
  /\ UNCHANGED <<pc, callVars, flag, indicator_host, noise, out, chk, wpc, u0, steps,
                 prev, rerun, bwd>>

NextBroadcast ==
  \/ IndexLaunch
  \/ \E i \in RangeIdx(Size(oshape)) : IndexMap(i)

SpecBroadcast == InitBroadcast /\ [][NextBroadcast]_vars

(***************************************************************************)
(* Backward: ParetoReparamBackward / RayleighReparamBackward               *)
(***************************************************************************)
Unwritten == [written |-> FALSE, from |-> {}]

\* CommonScalarReparamBackwardImpl: every element of the parameter gradient
\* is reduced from the output positions that broadcast to it
CommonScalarReparamBackwardImpl(gshape, pshape) ==
  [j \in RangeIdx(Size(pshape)) |->
     [written |-> TRUE,
      from |-> {i \in RangeIdx(Size(gshape)) :
                  ParamIndex(i, Stride(pshape, gshape),
                             FillShape(pshape, gshape).new_oshape) = j}]]

\* the call on inputs[0].shape_ = gshape, nout = outputs.size(),
\* outputs[0].shape_ = pshape, nin = inputs.size()
ReparamBackwardNoSizeCheck(d, gshape, nout, pshape, nin) ==
  LET quiet == [called |-> TRUE, dist |-> d, gshape |-> gshape, pshape |-> pshape,
                nout |-> nout, nin |-> nin, reducer |-> FALSE,
                igrad |-> Buffer(nout * Size(pshape), Unwritten)]
  IN  IF nout = 0 THEN quiet
      ELSE IF nin = 5
        THEN [quiet EXCEPT !.reducer = TRUE,
                           !.igrad = CommonScalarReparamBackwardImpl(gshape, pshape)]
      ELSE quiet

ReparamBackward(d, gshape, nout, pshape, nin) ==
  LET quiet == [called |-> TRUE, dist |-> d, gshape |-> gshape, pshape |-> pshape,
                nout |-> nout, nin |-> nin, reducer |-> FALSE,
                igrad |-> Buffer(nout * Size(pshape), Unwritten)]
  IN  IF Size(gshape) = 0 THEN quiet
      ELSE IF nout = 0 THEN quiet
      ELSE IF nin = 5
        THEN [quiet EXCEPT !.reducer = TRUE,
                           !.igrad = CommonScalarReparamBackwardImpl(gshape, pshape)]
      ELSE quiet

GradShapes == UNION {ShapesOfRank(r, MaxSize) : r \in Ranks}

BackwardCall(d) ==
  /\ pc = "idle"
  /\ ~bwd.called
  /\ \E gshape \in GradShapes, nin \in Arities :
       \/ bwd' = ReparamBackward(d, gshape, 0, <<>>, nin)
       \/ \E pshape \in {sh \in GradShapes \cup {<<>>} : Broadcastable(sh, gshape)} :
            bwd' = ReparamBackward(d, gshape, 1, pshape, nin)
  /\ UNCHANGED <<pc, callVars, flag, indicator_host, noise, out, chk, wpc, u0, steps,
                 prev, rerun, kidx>>

ParetoReparamBackward == BackwardCall("pareto")

RayleighReparamBackward == BackwardCall("rayleigh")

\* the call has returned; the caller takes its buffers back
BackwardReturn ==
  /\ bwd.called
  /\ bwd' = NoBackward
  /\ UNCHANGED <<pc, callVars, flag, indicator_host, noise, out, chk, wpc, u0, steps,
                 prev, rerun, kidx>>

NextBackward ==
  \/ ParetoReparamBackward
  \/ RayleighReparamBackward
  \/ BackwardReturn

SpecBackward == Init /\ [][NextBackward]_vars

(***************************************************************************)
(* Properties                                                              *)
(***************************************************************************)
N == Size(oshape)
Tensor == ~param.has
Running == pc \notin {"idle", "over", "index"}

\* the parameter work item i uses
ParamOf(i) ==
  IF param.has THEN param.v
  ELSE in0[ParamIndex(i, Stride(ishape, oshape), FillShape(ishape, oshape).new_oshape)]

\* C1: a forward call fails with a domain error iff its parameter is outside
\* the domain: scalar Pareto exactly when a <= 0, scalar Rayleigh exactly when
\* scale < 0, tensor Pareto exactly when some element is <= 0, tensor Rayleigh
\* exactly when some element is < 0.
OutOfDomain(d, v) == IF d = "pareto" THEN LeZero(v) ELSE LtZero(v)

ClaimedFailure ==
  IF param.has THEN OutOfDomain(dist, param.v)
  ELSE \E i \in DOMAIN in0 : OutOfDomain(dist, in0[i])

C1_FailsIffOutOfDomain ==
  pc \in {"checked", "failed"} => ((pc = "failed") <=> ClaimedFailure)

\* C1, with NaN set aside: for parameters that are numbers the call fails
\* iff the parameter is outside the domain.
C1_FailsIffOutOfDomain_Numbers ==
  (pc \in {"checked", "failed"} /\ param.v # NaN /\ \A i \in DOMAIN in0 : in0[i] # NaN)
    => ((pc = "failed") <=> ClaimedFailure)

\* C2 (as claimed): when the call ends in a domain error the output and the
\* noise buffer are exactly as they were before the call.
C2_FailureLeavesBuffers ==
  pc = "failed" => (out = Buffer(N, Junk) /\ noise = Buffer(N, Junk))

\* C2 (amended): the output buffer is written only in a call that passed its
\* domain check; a call that ends in a domain error leaves the output buffer
\* as it was and the noise buffer holding the raw uniform draws; a call that
\* succeeds has run every work item to its end and written every element.
C2_FailsBeforeOutput ==
  /\ (\E i \in DOMAIN out : out[i] # Junk) => pc \in {"xform", "done"}
  /\ pc = "failed" => /\ out = Buffer(N, Junk)
                      /\ noise = u0
                      /\ \A i \in DOMAIN noise : noise[i] \in Draws
  /\ pc = "done" => \A i \in RangeIdx(N) :
                      /\ wpc[i] = NumStmts(dist, param.has)
                      /\ out[i].t # "junk"
                      /\ noise[i].t # "junk"

C2_Witness ==
  /\ pc = "failed"
  /\ Tensor
  /\ N = 2
  /\ out = Buffer(N, Junk)
  /\ noise = u0

\* C3: for every output index i the tensor-path kernel reads the parameter
\* element at the unravelled output coordinate of i with every broadcast
\* dimension set to 0; that index lies within the parameter tensor; for
\* parameter shape (3,1) and output shape (3,4), element (i,j) reads (i,0).
RECURSIVE Ravel(_, _)
Ravel(coord, shape) ==
  IF coord = <<>> THEN 0
  ELSE Head(coord) * Prod(Tail(shape)) + Ravel(Tail(coord), Tail(shape))

CoordOf(i, shape) ==
  CHOOSE c \in [1..Len(shape) -> 0..MaxDim] :
    /\ \A d \in 1..Len(shape) : c[d] < shape[d]
    /\ Ravel(c, shape) = i

C3_BroadcastIndex ==
  (pc = "index" /\ kidx.i >= 0) =>
    LET bl == Len(oshape) - Len(ishape)
        pshape == [d \in 1..Len(oshape) |-> IF d <= bl THEN 1 ELSE ishape[d - bl]]
        c == CoordOf(kidx.i, oshape)
        m == [d \in 1..Len(oshape) |-> IF pshape[d] = 1 THEN 0 ELSE c[d]]
    IN  /\ kidx.idx = Ravel(m, pshape)
        /\ kidx.idx \in RangeIdx(Size(ishape))
        /\ (ishape = <<3, 1>> /\ oshape = <<3, 4>>) => kidx.idx = c[1]

C3_Witness ==
  /\ pc = "index"
  /\ ishape = <<3, 1>>
  /\ oshape = <<3, 4>>
  /\ kidx = [i |-> 7, idx |-> 1]

\* C4: the backward entry points write no buffer and do not invoke the
\* broadcast-backward reducer when the upstream-gradient tensor has zero
\* elements or when there is no gradient output (scalar forward); the reducer
\* is invoked only with an input arity of exactly 5.
C4_BackwardNoOp ==
  bwd.called =>
    /\ (Size(bwd.gshape) = 0 \/ bwd.nout = 0) => ~bwd.reducer
    /\ bwd.reducer => bwd.nin = 5
    /\ ~bwd.reducer => \A j \in DOMAIN bwd.igrad : bwd.igrad[j] = Unwritten
    /\ noise = <<>> /\ out = <<>>

C4_Witness ==
  /\ bwd.called
  /\ Size(bwd.gshape) = 0
  /\ bwd.nout = 1
  /\ bwd.nin = 5
  /\ ~bwd.reducer
  /\ bwd.igrad = Buffer(Size(bwd.pshape), Unwritten)

\* the derivative of exp(L/a) - 1 with respect to a, by the chain rule:
\* exp(L/a) * d(L/a)/da = exp(L/a) * (-L/a^2), for L = -ln(u)
ParetoDOutDa(u, a) ==
  LET L == Neg(Log(u))
  IN  Mul(Exp(Div(L, a)), Neg(Div(L, Mul(a, a))))

ParetoOut(u, a) == Sub(Exp(Div(Neg(Log(u)), a)), Int2Num(1))

\* C5 (as claimed): on the Pareto tensor path noise slot i ends as
\* -noise * (out[i] + 1) / a^2 with noise the uniform draw the slot held on
\* entry.
C5_GradFromRawDraw ==
  (dist = "pareto" /\ Tensor /\ pc \in {"xform", "done"}) =>
    \A i \in RangeIdx(N) :
      wpc[i] = 3 =>
        noise[i] = Div(Mul(Neg(u0[i]), Add(out[i], Int2Num(1))),
                       Mul(ParamOf(i), ParamOf(i)))

\* C5 (amended): on the Pareto tensor path, once work item i has finished,
\* out[i] = exp(-ln(u)/a) - 1 and noise slot i holds -L * (out[i] + 1) / a^2
\* with L = -ln(u), u the uniform draw the slot held on entry and a the
\* broadcast-indexed parameter element; that value is the partial derivative
\* of out[i] with respect to a.
C5_GradFromNegLog ==
  (dist = "pareto" /\ Tensor /\ pc \in {"xform", "done"}) =>
    \A i \in RangeIdx(N) :
      wpc[i] = 3 =>
        /\ out[i] = ParetoOut(u0[i], ParamOf(i))
        /\ noise[i] = Div(Mul(Neg(Neg(Log(u0[i]))), Add(out[i], Int2Num(1))),
                          Mul(ParamOf(i), ParamOf(i)))
        /\ noise[i] = ParetoDOutDa(u0[i], ParamOf(i))

C5_Witness ==
  /\ dist = "pareto"
  /\ Tensor
  /\ pc = "done"
  /\ ishape = <<1>>
  /\ oshape = <<2>>
  /\ in0[0] = Int2Num(2)
  /\ noise[1].t = "num"
  /\ noise[1] = ParetoDOutDa(u0[1], Int2Num(2))

\* C6: the verdict of a call depends only on the call's own parameter,
\* whatever the shared workspace flag held on entry (also after a call that
\* failed): the call passes iff its parameter passes the checks, and a call
\* repeated on the same parameter gets the verdict it got before.
Legal(d, p, a) ==
  IF p.has
    THEN IF d = "pareto" THEN GtZero(p.v) ELSE GeZero(p.v)
    ELSE \A i \in DOMAIN a : IF d = "pareto" THEN ~LeZero(a[i]) ELSE ~LtZero(a[i])

C6_VerdictFromParamOnly ==
  pc \in {"checked", "failed"} =>
    /\ (pc = "checked") <=> Legal(dist, param, in0)
    /\ rerun => ((pc = "failed") <=> (prev = "fail"))

C6_Witness ==
  /\ pc = "checked"
  /\ Tensor
  /\ Size(ishape) = 2
  /\ prev = "fail"
  /\ rerun = FALSE

\* C7: while the work items of the legality check run, in any order, the
\* flag never goes from -1.0 back to the valid value, and once all of them
\* have run it is -1.0 if some element violates the domain and otherwise the
\* value it was initialised to.
C7_FlagMonotone ==
  /\ [][(pc = "check" /\ flag = -1) => flag' = -1]_vars
  /\ [](pc = "check" /\ chk = {} =>
          flag = IF \E i \in DOMAIN in0 : OutOfDomain(dist, in0[i]) THEN -1 ELSE 0)

C7_Witness ==
  /\ pc = "check"
  /\ chk = {}
  /\ dist = "pareto"
  /\ Size(ishape) = 2
  /\ LeZero(in0[0])
  /\ ~LeZero(in0[1])
  /\ flag = -1

\* C8: the work items of a transform kernel do not depend on each other: a
\* step of work item i changes only out[i] and noise[i], and the parameter is
\* never written, so the buffers end as the one-by-one execution leaves them
\* whatever the interleaving.
C8_WorkItemsIndependent ==
  /\ [][(pc = "xform" /\ pc' = "xform") =>
          /\ in0' = in0
          /\ \E i \in DOMAIN wpc :
               /\ wpc'[i] = wpc[i] + 1
               /\ \A j \in DOMAIN wpc \ {i} :
                    out'[j] = out[j] /\ noise'[j] = noise[j] /\ wpc'[j] = wpc[j]]_vars
  /\ [](pc = "done" =>
          [noise |-> noise, out |-> out]
            = SerialRun(0, 0, dist, param, ishape, in0, oshape, u0, Buffer(N, Junk)))

C8_Witness ==
  /\ pc = "done"
  /\ dist = "pareto"
  /\ Tensor
  /\ ishape = <<1>>
  /\ oshape = <<2>>
  /\ u0[0] # u0[1]
  /\ out[0] # out[1]

\* C9: on the tensor path the steps of a call come in this order: flag reset,
\* noise filled, legality check over every parameter element, flag copied to
\* the host, verdict, transform; the host copy happens only when the check
\* kernel has completed, and the transform is launched only in a call whose
\* host-read flag is valid.
TensorOrder == <<"set_zero", "sample", "check", "copy", "host_check", "transform">>

C9_TensorStepOrder ==
  (Tensor /\ Running) =>
    /\ steps = SubSeq(TensorOrder, 1, Len(steps))
    /\ Len(steps) >= 2 => \A i \in RangeIdx(N) : u0[i] \in Draws
    /\ Len(steps) >= 4 => chk = {}
    /\ Len(steps) >= 4 =>
         indicator_host = IF \E i \in DOMAIN in0 : OutOfDomain(dist, in0[i]) THEN -1 ELSE 0
    /\ Len(steps) = 6 => indicator_host >= 0
    /\ pc = "failed" => (Len(steps) = 5 /\ indicator_host < 0)
    /\ (\E i \in DOMAIN out : out[i] # Junk) => Len(steps) = 6

C9_Witness ==
  /\ Tensor
  /\ pc = "xform"
  /\ Size(ishape) = 2
  /\ steps = TensorOrder
  /\ indicator_host = 0

\* C10 (as claimed): after a successful call, on both paths, no noise slot
\* holds its raw draw: Pareto slots hold the gradient factor, Rayleigh slots
\* hold sqrt(-2 ln(u)) with out[i] the parameter times the slot.
C10_NoiseRepurposed ==
  pc = "done" =>
    \A i \in RangeIdx(N) :
      /\ noise[i] # u0[i]
      /\ dist = "pareto" => noise[i] = ParetoDOutDa(u0[i], ParamOf(i))
      /\ dist = "rayleigh" =>
           /\ noise[i] = Sqrt(Mul(Int2Num(-2), Log(u0[i])))
           /\ out[i] = Mul(ParamOf(i), noise[i])

\* C10 (amended): after a successful call every Rayleigh noise slot, on both
\* paths, holds sqrt(-2 ln(u)) with out[i] the parameter times the slot, and
\* every Pareto noise slot on the tensor path holds the gradient factor; on
\* the Pareto scalar path the noise buffer still holds the raw uniform draws
\* and out[i] = exp(-ln(u)/a) - 1.
C10_NoiseAfterForward ==
  pc = "done" =>
    \A i \in RangeIdx(N) :
      /\ (dist = "pareto" /\ Tensor) =>
           /\ noise[i] = ParetoDOutDa(u0[i], ParamOf(i))
           /\ noise[i] # u0[i]
      /\ (dist = "pareto" /\ ~Tensor) =>
           /\ noise[i] = u0[i]
           /\ out[i] = ParetoOut(u0[i], ParamOf(i))
      /\ dist = "rayleigh" =>
           /\ noise[i] = Sqrt(Mul(Int2Num(-2), Log(u0[i])))
           /\ noise[i] # u0[i]
           /\ out[i] = Mul(ParamOf(i), noise[i])

C10_Witness ==
  /\ pc = "done"
  /\ dist = "pareto"
  /\ ~Tensor
  /\ N = 2
  /\ noise = u0
  /\ out[0] = ParetoOut(u0[0], param.v)

====
